---------------------------- MODULE Spec2Model ----------------------------
(***************************************************************************)
(* State-machine model of the ApiDeskReview backend.                       *)
(*                                                                         *)
(* The backend is a set of process-wide singleton services.  Each group of *)
(* services is modelled by its own variables and actions:                  *)
(*   - audit evaluation   (app/services/ai_process_service.py,             *)
(*                         app/services/ai_service.py)                     *)
(*   - the document store (app/services/ai_document_service.py,            *)
(*                         app/services/database.py)                       *)
(*   - the vector pipelines, default and BAAI profile                      *)
(*                        (app/services/*vector_store.py,                  *)
(*                         app/services/*document_processor.py)            *)
(*   - the relational-audit path (app/api/v1/endpoints/audit.py,           *)
(*                         app/services/audit_service.py,                  *)
(*                         app/services/sqlserver_service.py, app/main.py) *)
(*   - paragraph splitting (app/services/embedding_service.py)             *)
(*   - the search endpoints and the routes the application serves          *)
(*                        (app/api/v1/api.py, app/api/v1/endpoints/)       *)
(* Spec is the interleaving of all of them; SpecAI, SpecDoc, SpecDocSeq,   *)
(* SpecVecDefault, SpecVecBAAI, SpecHybrid, SpecSearchApi, SpecBatch,      *)
(* SpecChunks, SpecRouting, SpecSplit, SpecAudit, SpecAuditService,        *)
(* SpecSqlPool and SpecApp run one group while the others stay idle.       *)
(***************************************************************************)
EXTENDS Integers, Sequences, FiniteSets, TLC

VARIABLES
    \* ---- audit evaluation
    ai_api_key,     \* AIService.api_key ("xx" is the demo key)
    ai_pc,          \* "idle" | "running" | "done": position of the running call
    ai_entry,       \* which entry point is running: "process_audit" | "direct"
    ai_request,     \* QuestionID of every document group of the request
    ai_qids,        \* question_ids handed to process_multiple_questions
    ai_docs_ok,     \* documents carry the FileName/content keys
    ai_responses,   \* the list `responses` built by process_multiple_questions
    ai_kinds,       \* per processed question: what the LLM call did
    \* ---- document store
    now,            \* datetime.utcnow() as BSON stores it: whole milliseconds
    store,          \* the documents of collection "AIDocuments"
    next_oid,       \* the next _id the database generates
    co,             \* per coroutine: the AIDocumentService call it is running
    \* ---- vector pipelines
    vs_points,      \* per profile: the points of its vector-database collection
    vs_last,        \* the last process_single_document call and what it did
    processed_documents,    \* BAAIDocumentProcessor.processed_documents
    vs_search,      \* the last search_by_document_ids call and what it returned
    vs_hybrid,      \* the last BAAI hybrid_search call and what it returned
    vs_api,         \* the last response of a search endpoint
    batch,          \* the BAAI batch call in progress and its counters
    vs_chunks,      \* the last get_document_chunks call and what it returned
    \* ---- paragraph splitting
    split_text,        \* the text last given to split_into_paragraphs
    split_paragraphs,  \* the list it returned
    \* ---- web application and relational access
    app_phase,      \* "created", "running" (after startup_event) or "stopped"
    db_client,      \* DatabaseService.client is set
    db_database,    \* DatabaseService.database is set
    db_ever_connected,  \* a DatabaseService.connect() has succeeded
    doc_repository, \* AIDocumentService._repository is set
    health_last,    \* the last GET /health response
    aidoc_last,     \* the last /ai-documents response
    sql_is_connected,   \* SQLServerService._is_connected
    sql_executor_open,  \* its ThreadPoolExecutor accepts work
    sql_running,    \* worker threads of the executor inside a driver call
    sql_queued,     \* work items the executor has accepted and not started
    sql_probe_open, \* connect() is inside _test_connection
    svc_log,        \* the direct AuditService.get_audit_documents calls made
    sp_log,         \* the stored-procedure executions the SQL Server has seen
    http_log,       \* the GET /audit/documents/{id} requests answered so far
    \* ---- routing
    route_last      \* the last request the application routed

varsAI == <<ai_api_key, ai_pc, ai_entry, ai_request, ai_qids, ai_docs_ok,
            ai_responses, ai_kinds>>

varsDoc == <<now, store, next_oid, co>>

varsVec == <<vs_points, vs_last, processed_documents, vs_search, vs_hybrid,
             vs_api, batch>>

varsSplit == <<split_text, split_paragraphs>>

sqlState == <<sql_is_connected, sql_executor_open, sql_running, sql_queued,
              sql_probe_open>>

dbState == <<db_client, db_database, db_ever_connected>>

webState == <<app_phase, dbState, doc_repository, http_log, health_last,
              aidoc_last>>

varsAudit == <<webState, sqlState, sp_log, svc_log>>

varsRouting == <<route_last>>

varsChunks == <<vs_chunks>>

vars == <<varsAI, varsDoc, varsVec, varsAudit, varsSplit, varsRouting,
          varsChunks>>

\* what the actions of one group leave alone
othersAI == <<varsDoc, varsVec, varsAudit, varsSplit, varsRouting,
    varsChunks>>
othersDoc == <<varsAI, varsVec, varsAudit, varsSplit, varsRouting,
    varsChunks>>
othersVec == <<varsAI, varsDoc, varsAudit, varsSplit, varsRouting,
    varsChunks>>
othersAudit == <<varsAI, varsDoc, varsVec, varsSplit, varsRouting,
    varsChunks>>
othersSplit == <<varsAI, varsDoc, varsVec, varsAudit, varsRouting,
    varsChunks>>
othersRouting == <<varsAI, varsDoc, varsVec, varsAudit, varsSplit, varsChunks>>
othersChunks == <<varsAI, varsDoc, varsAudit, varsSplit, varsRouting>>

-----------------------------------------------------------------------------
(* Bounds *)

MaxQid == 2        \* QuestionIDs are 1..MaxQid
MaxGroups == 2     \* document groups in one audit request
MaxDirect == 2     \* question ids in a direct process_multiple_questions call

QIDs == 1..MaxQid

MaxDocId == 2      \* business keys (DocumentId) are 1..MaxDocId
MaxDocs == 2       \* documents ever inserted into the store
MaxClock == 1      \* the millisecond clock runs from 0 to MaxClock

DocumentIds == 1..MaxDocId
ObjectIds == 1..MaxDocs
Coroutines == {"c1", "c2"}

MaxChunks == 2     \* paragraphs split_into_paragraphs yields for one document

MaxSearchIds == 2  \* length of the document_ids list of a search
MaxBatch == 2      \* documents in the JSON file of a batch
DefaultLimit == 10 \* `limit: int = 10` of the search methods
Limits == {1, DefaultLimit}

MaxRuns == 3       \* runs of equal characters an input text is made of

MaxQueued == 4     \* work items waiting in the executor's queue

MaxAuditId == 2    \* audit_header_id values a request carries: 0..MaxAuditId
MaxRequests == 3   \* requests answered in one run of the application

-----------------------------------------------------------------------------
(* Generic helpers *)

Range(s) == {s[i] : i \in DOMAIN s}

SeqsUpTo(S, n) == UNION {[1..k -> S] : k \in 0..n}

IsInjective(s) == \A i, j \in DOMAIN s : i # j => s[i] # s[j]

\* every ordering of the elements of the finite set S
Orderings(S) == {s \in [1..Cardinality(S) -> S] : IsInjective(s)}

-----------------------------------------------------------------------------
(* Audit evaluation: ai_process_service.py, ai_service.py *)

\* str(qid)
Str(n) == ToString(n)

\* _extract_question_ids: list(set(question_ids)); a set has no defined
\* iteration order, so any ordering of the distinct ids may come out.
ExtractQuestionIdsNoDedup(docs) == {docs}
ExtractQuestionIds(docs) == Orderings(Range(docs))

\* What the chat-completion call can do for one question.
\*   kind "api_error"  : initialize() or the API call raises
\*   kind "not_json"   : content is not JSON (json.JSONDecodeError)
\*   kind "non_object" : content is JSON but no object (TypeError on item assignment)
\*   kind "object"     : a JSON object; cl / qid describe two of its keys
\* cl = 0 stands for "no ComplianceLevel key".
\* qid.t = "absent" | "int" | "str"; n is the number the model answered with.
NoLLM == [kind |-> "none", cl |-> 0, qid |-> [t |-> "absent", n |-> 0]]

JsonQuestionIds ==
    {[t |-> "absent", n |-> 0]} \cup [t : {"int", "str"}, n : QIDs]

LLMOutcomes ==
    {[kind |-> k, cl |-> 0, qid |-> [t |-> "absent", n |-> 0]] :
        k \in {"api_error", "not_json", "non_object"}}
    \cup [kind : {"object"}, cl : {0, 2, 3}, qid : JsonQuestionIds]

\* _simulate_audit_response_with_question_id
SimulateAuditResponseWithQuestionId(question_id) ==
    [ComplianceLevel |-> 2, QuestionID |-> question_id, path |-> "simulation"]

\* the dictionary appended by the except branch of process_multiple_questions
ErrorResponse(question_id) ==
    [ComplianceLevel |-> 2, QuestionID |-> question_id, path |-> "error"]

\* lines 362-390 of _call_openai_api_with_question_id: back-fill the keys the
\* object lacks, turn a non-string QuestionID into a string, keep the rest.
NormalizeLLMObject(llm, question_id) ==
    [ComplianceLevel |-> IF llm.cl = 0 THEN 2 ELSE llm.cl,
     QuestionID |-> IF llm.qid.t = "absent" THEN question_id ELSE Str(llm.qid.n),
     path |-> "llm"]

\* _call_openai_api_with_question_id: raised |-> TRUE when it re-raises.
CallOpenAIWithQuestionId(llm, question_id) ==
    CASE llm.kind = "object" ->
            [raised |-> FALSE, resp |-> NormalizeLLMObject(llm, question_id)]
      [] llm.kind = "not_json" ->
            [raised |-> FALSE, resp |-> SimulateAuditResponseWithQuestionId(question_id)]
      [] OTHER ->
            [raised |-> TRUE, resp |-> ErrorResponse(question_id)]

\* the try body of the loop of process_multiple_questions (lines 125-142);
\* raised |-> TRUE when an exception leaves it (here: _create_dynamic_prompt
\* indexing a document that lacks FileName/content).
EvaluateQuestion(question_id, llm) ==
    IF ~ai_docs_ok
    THEN [raised |-> TRUE, resp |-> ErrorResponse(question_id)]
    ELSE IF ai_api_key = "xx"
    THEN [raised |-> FALSE, resp |-> SimulateAuditResponseWithQuestionId(question_id)]
    ELSE LET r == CallOpenAIWithQuestionId(llm, question_id) IN
         IF r.raised
         THEN [raised |-> FALSE, resp |-> SimulateAuditResponseWithQuestionId(question_id)]
         ELSE r

\* the except branch of the loop (lines 144-152): the batch goes on
OnQuestionErrorAbort(responses, question_id) == responses
OnQuestionError(responses, question_id) ==
    Append(responses, ErrorResponse(question_id))

\* process_audit(request): extract the ids, substitute the example documents,
\* call process_multiple_questions with the ids as strings.
ProcessAudit ==
    /\ ai_pc = "idle"
    /\ \E req \in SeqsUpTo(QIDs, MaxGroups) :
         \E ids \in ExtractQuestionIds(req) :
            /\ ai_request' = req
            /\ ai_qids' = [i \in DOMAIN ids |-> Str(ids[i])]
    /\ ai_entry' = "process_audit"
    /\ ai_docs_ok' = TRUE
    /\ ai_pc' = "running"
    /\ ai_responses' = <<>>
    /\ ai_kinds' = <<>>
    /\ UNCHANGED <<ai_api_key, othersAI>>

\* process_multiple_questions called by another caller, with its own
\* question ids and documents.
ProcessMultipleQuestionsDirect ==
    /\ ai_pc = "idle"
    /\ \E ids \in SeqsUpTo(QIDs, MaxDirect), ok \in BOOLEAN :
            /\ ai_request' = ids
            /\ ai_qids' = [i \in DOMAIN ids |-> Str(ids[i])]
            /\ ai_docs_ok' = ok
    /\ ai_entry' = "direct"
    /\ ai_pc' = "running"
    /\ ai_responses' = <<>>
    /\ ai_kinds' = <<>>
    /\ UNCHANGED <<ai_api_key, othersAI>>

\* one iteration of the loop of process_multiple_questions
ProcessQuestion ==
    /\ ai_pc = "running"
    /\ Len(ai_kinds) < Len(ai_qids)
    /\ LET question_id == ai_qids[Len(ai_kinds) + 1] IN
       \E llm \in (IF ai_docs_ok /\ ai_api_key # "xx" THEN LLMOutcomes ELSE {NoLLM}) :
          LET r == EvaluateQuestion(question_id, llm) IN
          /\ ai_responses' = IF r.raised
                             THEN OnQuestionError(ai_responses, question_id)
                             ELSE Append(ai_responses, r.resp)
          /\ ai_kinds' = Append(ai_kinds, llm.kind)
    /\ UNCHANGED <<ai_api_key, ai_pc, ai_entry, ai_request, ai_qids, ai_docs_ok,
                   othersAI>>

\* `return responses`
ReturnResponses ==
    /\ ai_pc = "running"
    /\ Len(ai_kinds) = Len(ai_qids)
    /\ ai_pc' = "done"
    /\ UNCHANGED <<ai_api_key, ai_entry, ai_request, ai_qids, ai_docs_ok,
                   ai_responses, ai_kinds, othersAI>>

\* the caller takes the result; the service is ready for the next request
NextRequest ==
    /\ ai_pc = "done"
    /\ ai_pc' = "idle"
    /\ UNCHANGED <<ai_api_key, ai_entry, ai_request, ai_qids, ai_docs_ok,
                   ai_responses, ai_kinds, othersAI>>

\* the service idle, before any request
IdleAI ==
    /\ ai_pc = "idle"
    /\ ai_entry = "process_audit"
    /\ ai_request = <<>>
    /\ ai_qids = <<>>
    /\ ai_docs_ok = TRUE
    /\ ai_responses = <<>>
    /\ ai_kinds = <<>>

\* settings.openai_api_key: the demo key or a configured one
InitAI ==
    /\ ai_api_key \in {"xx", "sk-configured"}
    /\ IdleAI

\* the audit-evaluation service left unused, with the demo key
QuietAI ==
    /\ ai_api_key = "xx"
    /\ IdleAI

AIStep ==
    \/ ProcessAudit
    \/ ProcessMultipleQuestionsDirect
    \/ ProcessQuestion
    \/ ReturnResponses
    \/ NextRequest

-----------------------------------------------------------------------------
(* Claims about audit evaluation (checked under SpecAI) *)

LLMFailureKinds == {"api_error", "not_json", "non_object"}

\* C1: process_audit returns exactly one response entry per distinct
\* QuestionID of the request's document groups: as many entries as distinct
\* ids, and the ids evaluated are the distinct ids, each once.
C1_OneEntryPerDistinctQuestionId ==
    (ai_pc = "done" /\ ai_entry = "process_audit") =>
        /\ Len(ai_responses) = Cardinality(Range(ai_request))
        /\ Range(ai_qids) = {Str(q) : q \in Range(ai_request)}
        /\ IsInjective(ai_qids)

\* a request with a repeated id (ids like [5, 5]) has been answered
C1_Witness ==
    /\ ai_pc = "done"
    /\ ai_entry = "process_audit"
    /\ Len(ai_request) > Cardinality(Range(ai_request))
    /\ Len(ai_responses) = Cardinality(Range(ai_request))

\* C2: every response entry of the audit-evaluation paths has
\* ComplianceLevel = 2, whatever the LLM returned.
C2_ComplianceLevelAlwaysTwo ==
    ai_pc = "done" =>
        \A i \in DOMAIN ai_responses : ai_responses[i].ComplianceLevel = 2

\* C3: a failure while evaluating one question never aborts the batch:
\* process_multiple_questions returns one entry per requested id, in request
\* order, and what each entry is depends on that question's own outcome only.
C3_FailureNeverAbortsBatch ==
    /\ ai_pc \in {"running", "done"} => Len(ai_responses) = Len(ai_kinds)
    /\ ai_pc = "done" => Len(ai_responses) = Len(ai_qids)
    /\ ai_pc \in {"running", "done"} =>
         \A i \in DOMAIN ai_responses :
            /\ i \in DOMAIN ai_kinds
            /\ ai_kinds[i] = "object" => ai_responses[i].path = "llm"
            /\ ai_kinds[i] \in LLMFailureKinds =>
                  ai_responses[i] = SimulateAuditResponseWithQuestionId(ai_qids[i])
            /\ ai_kinds[i] = "none" /\ ai_docs_ok =>
                  ai_responses[i] = SimulateAuditResponseWithQuestionId(ai_qids[i])
            /\ ai_kinds[i] = "none" /\ ~ai_docs_ok =>
                  ai_responses[i] = ErrorResponse(ai_qids[i])

\* a batch whose first question failed at the LLM and whose second succeeded
C3_Witness ==
    /\ ai_pc = "done"
    /\ Len(ai_qids) = 2
    /\ Len(ai_responses) = 2
    /\ ai_kinds[1] = "api_error"
    /\ ai_kinds[2] = "object"
    /\ ai_responses[2].path = "llm"

\* C4: the entry at position i carries the i-th requested question id, on
\* every path, also when the LLM's JSON object has a QuestionID key.
C4_QuestionIdMatchesRequest ==
    ai_pc = "done" =>
        \A i \in DOMAIN ai_responses :
            i \in DOMAIN ai_qids => ai_responses[i].QuestionID = ai_qids[i]

-----------------------------------------------------------------------------
(* Document store: ai_document_service.py, database.py, models/ai_document.py *)

IdleCall == [op |-> "none", pc |-> "idle", arg |-> 0, result |-> "none",
             existed |-> FALSE]

\* collection.find_one({"DocumentId": d}): the stored documents that match
FindByDocumentIdNothing(d) == {}
FindByDocumentId(d) == {doc \in store : doc.DocumentId = d}

\* collection.find_one({"_id": ObjectId(oid)})
FindByObjectId(oid) == {doc \in store : doc.oid = oid}

\* AIDocumentCreateModel.to_mongo: the model's fields plus CreatedAt/UpdatedAt
\* stamped with the clock; the database adds the generated _id.
\* Documents are created with the default Inactive = False.
CreateToMongo(d) ==
    [oid |-> next_oid, DocumentId |-> d, Inactive |-> FALSE, UpdatedAt |-> now]

\* AIDocumentUpdateModel(inactive=True).to_mongo_update():
\* {"$set": {"Inactive": True, "UpdatedAt": utcnow()}} applied to a document
SoftDeleteSet(doc) == [doc EXCEPT !.Inactive = TRUE, !.UpdatedAt = now]

\* GenericMongoRepository.update_one: result.modified_count > 0.  The
\* database counts a matched document as modified only if $set changed it.
UpdateOneResult(old, new) == old # new

\* create_document up to its first suspension point: the pre-check
\* get_document_by_filters(document_id=...) and the ValueError it leads to.
CreatePreCheck(c) ==
    /\ co[c].pc = "idle"
    /\ \E d \in DocumentIds :
         LET existing == FindByDocumentId(d) IN
         IF existing # {}
         THEN co' = [co EXCEPT ![c] = [op |-> "create", pc |-> "done", arg |-> d,
                                       result |-> "ValueError", existed |-> TRUE]]
         ELSE /\ next_oid + Cardinality({k \in Coroutines : co[k].pc = "checked"})
                    <= MaxDocs
              /\ co' = [co EXCEPT ![c] = [op |-> "create", pc |-> "checked", arg |-> d,
                                          result |-> "none", existed |-> FALSE]]
    /\ UNCHANGED <<now, store, next_oid, othersDoc>>

\* create_document after the pre-check: to_mongo() and repository.insert_one
CreateInsert(c) ==
    /\ co[c].pc = "checked"
    /\ store' = store \cup {CreateToMongo(co[c].arg)}
    /\ next_oid' = next_oid + 1
    /\ co' = [co EXCEPT ![c].pc = "done", ![c].result = "inserted"]
    /\ UNCHANGED <<now, othersDoc>>

\* soft_delete_document -> update_document up to its first suspension point:
\* get_document_by_id; False when nothing is found
SoftDeleteFind(c) ==
    /\ co[c].pc = "idle"
    /\ \E oid \in ObjectIds :
         IF FindByObjectId(oid) = {}
         THEN co' = [co EXCEPT ![c] = [op |-> "soft_delete", pc |-> "done", arg |-> oid,
                                       result |-> "false", existed |-> FALSE]]
         ELSE co' = [co EXCEPT ![c] = [op |-> "soft_delete", pc |-> "found", arg |-> oid,
                                       result |-> "none", existed |-> TRUE]]
    /\ UNCHANGED <<now, store, next_oid, othersDoc>>

\* update_document after the lookup: to_mongo_update() stamps UpdatedAt,
\* repository.update_one applies $set and reports modified_count > 0
SoftDeleteUpdate(c) ==
    /\ co[c].pc = "found"
    /\ LET olds == FindByObjectId(co[c].arg) IN
       \E old \in olds :
          LET new == SoftDeleteSet(old) IN
          /\ store' = (store \ {old}) \cup {new}
          /\ co' = [co EXCEPT ![c].pc = "done",
                              ![c].result = IF UpdateOneResult(old, new)
                                            THEN "true" ELSE "false"]
    /\ UNCHANGED <<now, next_oid, othersDoc>>

\* the caller receives the result (or the exception); the slot is free again
ReturnToCaller(c) ==
    /\ co[c].pc = "done"
    /\ co' = [co EXCEPT ![c] = IdleCall]
    /\ UNCHANGED <<now, store, next_oid, othersDoc>>

\* time passes: the next utcnow() falls in a later millisecond
Tick ==
    /\ now < MaxClock
    /\ now' = now + 1
    /\ UNCHANGED <<store, next_oid, co, othersDoc>>

InitDoc ==
    /\ now = 0
    /\ store = {}
    /\ next_oid = 1
    /\ co = [c \in Coroutines |-> IdleCall]

DocStep(c) ==
    \/ CreatePreCheck(c)
    \/ CreateInsert(c)
    \/ SoftDeleteFind(c)
    \/ SoftDeleteUpdate(c)
    \/ ReturnToCaller(c)

\* requests are served concurrently: any coroutine may take its next step
NextDoc ==
    \/ \E c \in Coroutines : DocStep(c)
    \/ Tick

\* one caller awaiting each call before it makes the next one
NextDocSeq ==
    \/ DocStep("c1")
    \/ Tick

-----------------------------------------------------------------------------
(* Claims about the document store *)

\* the stored documents whose business key is d
StoredWith(d) == {doc \in store : doc.DocumentId = d}

\* C5 (SpecDocSeq): create_document for a document_id that a completed
\* create_document already stored raises ValueError, inserts nothing, and
\* the store still holds exactly one document with that document_id.
C5_DuplicateCreateRejected ==
    [][\A c \in Coroutines :
         (/\ co[c].pc = "idle"
          /\ co'[c].op = "create"
          /\ StoredWith(co'[c].arg) # {})
         => /\ co'[c].pc = "done"
            /\ co'[c].result = "ValueError"
            /\ store' = store
            /\ next_oid' = next_oid
            /\ Cardinality(StoredWith(co'[c].arg)) = 1]_vars

\* a second create for a stored document_id has been rejected
C5_Witness ==
    \E c \in Coroutines :
        /\ co[c].op = "create"
        /\ co[c].pc = "done"
        /\ co[c].result = "ValueError"
        /\ Cardinality(StoredWith(co[c].arg)) = 1

\* C6 (SpecDoc): in every reachable state, also under interleaved
\* create_document coroutines, at most one stored document has a given
\* document_id.
C6_UniqueDocumentId ==
    \A d \in DocumentIds : Cardinality(StoredWith(d)) <= 1

\* C7 (SpecDocSeq): a soft_delete_document call on an existing document
\* returns true and leaves it inactive, also when it repeats the previous one.
C7_SoftDeleteReportsSuccess ==
    \A c \in Coroutines :
        (co[c].op = "soft_delete" /\ co[c].pc = "done" /\ co[c].existed)
        => /\ co[c].result = "true"
           /\ \A doc \in store : doc.oid = co[c].arg => doc.Inactive

-----------------------------------------------------------------------------
(* Vector pipelines: vector_store.py, document_processor.py,               *)
(* embedding_service.py and their baai_ counterparts                       *)

Profiles == {"default", "baai"}

\* A JSON document handed to the processor.  DocumentId 0 stands for a
\* missing (falsy) id.  Its Content is the empty string (nonempty FALSE) or a
\* text that split_into_paragraphs cuts into `paragraphs` pieces (none for a
\* text of white space only).
Contents ==
    {[nonempty |-> FALSE, paragraphs |-> 0]}
    \cup {[nonempty |-> TRUE, paragraphs |-> n] : n \in 0..MaxChunks}

\* `limit=100` of the scroll and `limit=10000` of the search that
\* get_document_chunks makes in the BAAI and in the default profile
scroll_limit == 100
chunk_search_limit == 10000

\* A payload is a tree of keys; it is kept as the set of its
\* <<path, value>> leaves.  A filter key "a.b" is the path <<"a", "b">>.
PayloadMatches(payload, path, value) == <<path, value>> \in payload

\* _generate_point_id: an integer derived from the MD5 of "<id>_<index>",
\* one per (document_id, chunk_index) pair
GeneratePointId(document_id, chunk_index) == <<document_id, chunk_index>>

\* EmbeddingService.process_document: chunk i carries a copy of the document
\* metadata extended with chunk_index / total_chunks (all at the top level).
\* BAAIEmbeddingService.process_document builds the same metadata.
\* Of the keys only DocumentId and chunk_index are kept: the others
\* (total_chunks, FileName, ...) are copied along and no filter reads them.
ProcessDocumentChunks(document_id, content) ==
    [i \in 1..content.paragraphs |->
        [document_id |-> document_id,
         metadata |-> {<< <<"DocumentId">>, document_id >>,
                       << <<"chunk_index">>, i - 1 >>}]]

\* the payload insert_document_chunks builds for one chunk:
\*   default: payload = chunk['metadata'], unchanged
\*   BAAI:    a new dictionary with DocumentId, ChunkIndex, ...
ChunkPayload(profile, chunk) ==
    IF profile = "default"
    THEN chunk.metadata
    ELSE {<< <<"DocumentId">>, chunk.document_id >>}
         \cup {<< <<"ChunkIndex">>, kv[2] >> :
                  kv \in {x \in chunk.metadata : x[1] = <<"chunk_index">>}}

ChunkIndexOf(chunk) ==
    (CHOOSE kv \in chunk.metadata : kv[1] = <<"chunk_index">>)[2]

\* the points insert_document_chunks hands to client.upsert
ChunkPoints(profile, chunks) ==
    {[id |-> GeneratePointId(chunks[i].document_id, ChunkIndexOf(chunks[i])),
      payload |-> ChunkPayload(profile, chunks[i])] : i \in DOMAIN chunks}

\* client.upsert: a point replaces the stored point with the same id
Upsert(collection, points) ==
    {p \in collection : \A q \in points : q.id # p.id} \cup points

\* the payload key document_exists filters on
ExistsKeyFlat(profile) == <<"DocumentId">>
ExistsKey(profile) ==
    IF profile = "default" THEN <<"metadata", "DocumentId">> ELSE <<"DocumentId">>

\* document_exists: a filtered search with limit 1; any exception of the
\* client (search_fails) is logged and answered with False.
DocumentExists(profile, document_id, search_fails) ==
    IF search_fails
    THEN FALSE
    ELSE \E p \in vs_points[profile] :
            PayloadMatches(p.payload, ExistsKey(profile), document_id)

\* vs_last and vs_search describe the most recent call of the pipeline
\* made on its own; a call of another kind (a batch, a search) clears them
NoCall ==
    [profile |-> "none", doc |-> 0, had_points |-> FALSE, exists |-> FALSE,
     outcome |-> "none", returned |-> "None", counter |-> "none",
     changed |-> FALSE]

NoSearch ==
    [profile |-> "none", document_ids |-> <<>>, limit |-> 0,
     outcome |-> "none", hits |-> {}, indexed |-> {}]

\* id_documents: the documents of the id results; excluded: the filter
\* dropped a similarity result
NoHybrid ==
    [limit |-> 0, id_documents |-> {}, excluded |-> FALSE, returned |-> {},
     scores |-> <<>>]

\* a finished or running batch: its counters, the documents still to do,
\* and `failed`, the number of documents so far whose chunking, embedding
\* or insertion raised or whose insert reported failure
NoBatch ==
    [pc |-> "idle", entry |-> "none", todo |-> <<>>, success |-> FALSE,
     processed |-> 0, skipped |-> 0, errors |-> 0, total_documents |-> 0,
     failed |-> 0]

\* of a get_document_chunks call: how many chunks the collection holds for
\* the document and how many came back, whether the list is exactly the
\* points of the document, and whether its chunk_index values ascend
NoChunks ==
    [profile |-> "none", doc |-> 0, outcome |-> "none", indexed |-> 0,
     returned |-> 0, complete |-> TRUE, ascending |-> TRUE]

NoResponse ==
    [route |-> "none", failed |-> "none", status |-> 0, success |-> FALSE,
     total_results |-> 0]

\* what one call of [_]process_single_document does, as
\* [outcome, exists, points]: the branch it ends in, what document_exists
\* answered, and the collection afterwards.
\*   "no_id" "exists" "no_content" "no_chunks": the early returns
\*   "exception": process_document raises (embed_fails)
\*   "insert_failed": insert_document_chunks returns False (upsert_fails)
\*   "processed": the chunks were upserted
SingleDocumentResult(profile, document_id, content, search_fails, embed_fails, upsert_fails) ==
    LET exists == DocumentExists(profile, document_id, search_fails)
        chunks == ProcessDocumentChunks(document_id, content)
        same == vs_points[profile]
    IN  IF document_id = 0
        THEN [outcome |-> "no_id", exists |-> FALSE, points |-> same]
        ELSE IF exists
        THEN [outcome |-> "exists", exists |-> TRUE, points |-> same]
        ELSE IF ~content.nonempty
        THEN [outcome |-> "no_content", exists |-> FALSE, points |-> same]
        ELSE IF embed_fails /\ content.paragraphs > 0
        THEN [outcome |-> "exception", exists |-> FALSE, points |-> same]
        ELSE IF chunks = <<>>
        THEN [outcome |-> "no_chunks", exists |-> FALSE, points |-> same]
        ELSE IF upsert_fails
        THEN [outcome |-> "insert_failed", exists |-> FALSE, points |-> same]
        ELSE [outcome |-> "processed", exists |-> FALSE,
              points |-> Upsert(same, ChunkPoints(profile, chunks))]

\* what the caller sees of a call that ended in `outcome`:
\* BAAI returns True only after a successful insert; the default processor
\* returns None and bumps one of its three counters.
Returned(profile, outcome) ==
    IF profile = "default" THEN "None"
    ELSE IF outcome = "processed" THEN "True" ELSE "False"

CounterBumped(profile, outcome) ==
    IF profile # "default" THEN "none"
    ELSE IF outcome = "processed" THEN "processed_count"
    ELSE IF outcome \in {"insert_failed", "exception"} THEN "error_count"
    ELSE "skipped_count"

\* whether the collection holds a point written for document d
HasPointsOf(profile, d) ==
    \E p \in vs_points[profile] : p.id[1] = d

ProcessSingle(profile) ==
    \E d \in 0..MaxDocId, content \in Contents,
       search_fails \in BOOLEAN, embed_fails \in BOOLEAN, upsert_fails \in BOOLEAN :
        LET r == SingleDocumentResult(profile, d, content, search_fails,
                                      embed_fails, upsert_fails) IN
        /\ vs_points' = [vs_points EXCEPT ![profile] = r.points]
        /\ vs_last' = [profile |-> profile, doc |-> d,
                       had_points |-> HasPointsOf(profile, d),
                       exists |-> r.exists, outcome |-> r.outcome,
                       returned |-> Returned(profile, r.outcome),
                       counter |-> CounterBumped(profile, r.outcome),
                       changed |-> r.points # vs_points[profile]]
        /\ processed_documents' =
              IF profile = "baai" /\ r.outcome = "processed"
              THEN processed_documents \cup {d}
              ELSE processed_documents
        /\ vs_search' = NoSearch
        /\ vs_hybrid' = NoHybrid
        /\ vs_api' = NoResponse
        /\ UNCHANGED <<batch, othersVec>>

\* DocumentProcessor._process_single_document (default profile)
ProcessSingleDocumentDefault == ProcessSingle("default")

\* BAAIDocumentProcessor.process_single_document; it returns True exactly
\* in the outcome "processed"
ProcessSingleDocumentBAAI == ProcessSingle("baai")

InitVec ==
    /\ vs_points = [p \in Profiles |-> {}]
    /\ vs_last = NoCall
    /\ processed_documents = {}
    /\ vs_search = NoSearch
    /\ vs_hybrid = NoHybrid
    /\ vs_api = NoResponse
    /\ batch = NoBatch
    /\ vs_chunks = NoChunks

\* the payload key search_by_document_ids builds its conditions on
SearchKey(profile) ==
    IF profile = "default" THEN <<"metadata", "DocumentId">> ELSE <<"DocumentId">>

\* the clause of the Filter the per-id conditions are put in:
\* default Filter(should=[...]), BAAI Filter(must=[...])
FilterClauseShould(profile) == "should"
FilterClause(profile) == IF profile = "default" THEN "should" ELSE "must"

\* a Filter with one FieldCondition(key, MatchValue(id)) per requested id:
\* `must` wants every condition to hold, `should` at least one
FilterAccepts(clause, key, document_ids, payload) ==
    IF clause = "must"
    THEN \A i \in DOMAIN document_ids : PayloadMatches(payload, key, document_ids[i])
    ELSE \E i \in DOMAIN document_ids : PayloadMatches(payload, key, document_ids[i])

\* the points client.search may rank: those the filter accepts
Eligible(profile, document_ids) ==
    {p \in vs_points[profile] :
        FilterAccepts(FilterClause(profile), SearchKey(profile), document_ids,
                      p.payload)}

Min(a, b) == IF a <= b THEN a ELSE b

\* client.search returns the `limit` best-scoring eligible points; which
\* ones score best depends on the embeddings, so any selection of that
\* size is possible
TopHits(eligible, limit) ==
    {h \in SUBSET eligible : Cardinality(h) = Min(limit, Cardinality(eligible))}

\* search_by_document_ids(document_ids, query_text, limit) with a non-empty
\* id list.  When the embedding or the search raises, the default profile
\* re-raises and the BAAI profile returns [].
SearchByDocumentIds(profile) ==
    \E ids \in SeqsUpTo(DocumentIds, MaxSearchIds) \ {<<>>},
       limit \in Limits, fails \in BOOLEAN :
        \E hits \in TopHits(Eligible(profile, ids), limit) :
            /\ vs_search' =
                  [profile |-> profile, document_ids |-> ids, limit |-> limit,
                   outcome |-> IF ~fails THEN "returned"
                               ELSE IF profile = "default" THEN "raised"
                               ELSE "returned",
                   hits |-> IF fails THEN {} ELSE {h.id : h \in hits},
                   indexed |-> {p.id : p \in {q \in vs_points[profile] :
                                                q.id[1] \in Range(ids)}}]
            /\ vs_last' = NoCall
            /\ vs_hybrid' = NoHybrid
            /\ vs_api' = NoResponse
            /\ UNCHANGED <<vs_points, processed_documents, batch, othersVec>>

SearchByDocumentIdsDefault == SearchByDocumentIds("default")

SearchByDocumentIdsBAAI == SearchByDocumentIds("baai")

\* point.score of a hit and the score_threshold of a request: low, high
Scores == {1, 2}

\* `limit` of a hybrid request (Field(10, ge=1, le=100))
HybridLimits == {1, 3}

\* point.payload["DocumentId"] and point.payload["ChunkIndex"]
DocumentIdOf(payload) ==
    CHOOSE v \in 0..MaxDocId : PayloadMatches(payload, <<"DocumentId">>, v)

BAAIChunkIndexOf(payload) ==
    CHOOSE v \in 0..MaxChunks : PayloadMatches(payload, <<"ChunkIndex">>, v)

\* the result dictionary built from one scored point; `phase` is not a key
\* of the dictionary, it remembers which search produced the entry
BAAIResult(point, score, phase) ==
    [document_id |-> DocumentIdOf(point.payload),
     chunk_index |-> BAAIChunkIndexOf(point.payload),
     score |-> score, phase |-> phase]

\* the result lists a search can build from the points it was given, their
\* scores taken from `allowed`.  A list holds a point once; it is kept as
\* the set of its entries.
ScoredResults(points, allowed, phase) ==
    {{BAAIResult(p, f[p], phase) : p \in points} : f \in [points -> allowed]}

\* BAAI search_by_document_ids as hybrid_search sees it: [] on any exception
BAAISearchByDocumentIds(document_ids, limit, fails) ==
    IF fails
    THEN {{}}
    ELSE UNION {ScoredResults(h, Scores, "id") :
                   h \in TopHits(Eligible("baai", document_ids), limit)}

\* BAAI search_similar: at most `limit` points, each scoring at least
\* score_threshold (which points do depends on the embeddings); [] on any
\* exception
BAAISearchSimilar(limit, score_threshold, fails) ==
    IF fails
    THEN {{}}
    ELSE UNION {ScoredResults(h, {x \in Scores : x >= score_threshold},
                              "similar") :
                   h \in {x \in SUBSET vs_points["baai"] :
                             Cardinality(x) <= limit}}

\* `[r for r in similar_results if r["document_id"] not in exclude_doc_ids]`
KeepAll(similar_results, exclude_doc_ids) == similar_results
ExcludeFound(similar_results, exclude_doc_ids) ==
    {r \in similar_results : r.document_id \notin exclude_doc_ids}

\* key = f"{result['document_id']}_{result['chunk_index']}"
ResultKey(result) == <<result.document_id, result.chunk_index>>

\* unique_results: the id results are met first; a later entry with the
\* same key replaces the stored one only with a strictly higher score
UniqueResults(id_results, filtered_results) ==
    {r \in id_results :
        ~\E q \in filtered_results :
            ResultKey(q) = ResultKey(r) /\ q.score > r.score}
    \cup {q \in filtered_results :
            \A r \in id_results :
                ResultKey(r) = ResultKey(q) => q.score > r.score}

\* final_results.sort(key=score, reverse=True), as the scores in list order
RECURSIVE SortByScore(_)
SortByScore(results) ==
    IF results = {}
    THEN <<>>
    ELSE LET top == CHOOSE r \in results :
                        \A q \in results : q.score <= r.score
         IN  <<top.score>> \o SortByScore(results \ {top})

\* final_results[:limit] of the sorted list: the best `limit` entries; among
\* equal scores the order of the list decides
FirstOfSorted(final_results, limit) ==
    {t \in SUBSET final_results :
        /\ Cardinality(t) = Min(limit, Cardinality(final_results))
        /\ \A r \in t, q \in final_results \ t : q.score <= r.score}

\* hybrid_search: every list it can return, with what the two phases found
HybridSearchResults(document_ids, limit, score_threshold, id_fails, similar_fails) ==
    UNION {
      UNION {
        LET exclude_doc_ids == {r.document_id : r \in id_results}
            filtered_results == ExcludeFound(similar_results, exclude_doc_ids)
            final_results == UniqueResults(id_results, filtered_results)
        IN  {[id_documents |-> exclude_doc_ids,
              excluded |-> similar_results # filtered_results,
              returned |-> t,
              scores |-> SortByScore(t)] :
                 t \in FirstOfSorted(final_results, limit)} :
        similar_results \in
            IF limit - Cardinality(id_results) > 0
            THEN BAAISearchSimilar(limit - Cardinality(id_results),
                                   score_threshold, similar_fails)
            ELSE {{}} } :
      id_results \in
          IF document_ids # <<>>
          THEN BAAISearchByDocumentIds(document_ids, limit, id_fails)
          ELSE {{}} }

\* BAAIVectorStoreService.hybrid_search(document_ids, query_text, limit,
\* score_threshold)
HybridSearch ==
    \E document_ids \in SeqsUpTo(DocumentIds, MaxSearchIds),
       limit \in HybridLimits, score_threshold \in Scores,
       id_fails \in BOOLEAN, similar_fails \in BOOLEAN :
        \E r \in HybridSearchResults(document_ids, limit, score_threshold,
                                     id_fails, similar_fails) :
            /\ vs_hybrid' = [limit |-> limit,
                             id_documents |-> r.id_documents,
                             excluded |-> r.excluded,
                             returned |-> r.returned, scores |-> r.scores]
            /\ vs_last' = NoCall
            /\ vs_search' = NoSearch
            /\ vs_api' = NoResponse
            /\ UNCHANGED <<vs_points, processed_documents, batch, othersVec>>

\* the search routes of endpoints/vector_search.py and endpoints/baai_search.py
SearchRoutes ==
    {"vector-search/hybrid", "vector-search/similarity", "baai-search/search",
     "baai-search/search/similar", "baai-search/search/by-ids"}

RouteProfile(route) ==
    IF route \in {"vector-search/hybrid", "vector-search/similarity"}
    THEN "default" ELSE "baai"

\* the client call of a request that fails: none, the get_collections of
\* connect() (only the baai-search handlers connect), or the search
FailurePoints(route) ==
    IF RouteProfile(route) = "baai"
    THEN {"none", "connect", "search"}
    ELSE {"none", "search"}

\* the handler of a search route as the set of its possible answers
\* [raised, total]: the service call it makes and what becomes of a failing
\* client call.  VectorStoreService logs and re-raises;
\* BAAIVectorStoreService.connect re-raises, its searches log and return [].
SearchHandler(route, document_ids, limit, score_threshold, failed) ==
    LET fails == failed = "search"
        answers(lists) == {[raised |-> FALSE, total |-> Cardinality(l)] : l \in lists}
        raise == {[raised |-> TRUE, total |-> 0]}
    IN  CASE route = "vector-search/hybrid" ->
                IF fails THEN raise
                ELSE answers(TopHits(Eligible("default", document_ids), limit))
          [] route = "vector-search/similarity" ->
                IF fails THEN raise
                ELSE answers({x \in SUBSET vs_points["default"] :
                                 Cardinality(x) <= limit})
          [] route = "baai-search/search" ->
                IF failed = "connect" THEN raise
                ELSE answers({r.returned :
                                r \in HybridSearchResults(document_ids, limit,
                                         score_threshold, fails, fails)})
          [] route = "baai-search/search/similar" ->
                IF failed = "connect" THEN raise
                ELSE answers(BAAISearchSimilar(limit, score_threshold, fails))
          [] route = "baai-search/search/by-ids" ->
                IF failed = "connect" THEN raise
                ELSE answers(BAAISearchByDocumentIds(document_ids, limit, fails))

\* POST /vector-search/hybrid, POST /vector-search/similarity,
\* POST /baai-search/search, GET /baai-search/search/similar,
\* GET /baai-search/search/by-ids.  /vector-search/hybrid answers 400 to an
\* empty id list, /search/by-ids is not entered without ids; an exception
\* in a handler is answered 500, everything else 200 with success=True.
\* The baai-search handlers are entered through their own router: the
\* application does not include it (see IncludedRouters).
SearchRequest ==
    \E route \in SearchRoutes, limit \in HybridLimits, score_threshold \in Scores,
       document_ids \in SeqsUpTo(DocumentIds, MaxSearchIds) :
        \E failed \in FailurePoints(route) :
            /\ route = "baai-search/search/by-ids" => document_ids # <<>>
            /\ IF route = "vector-search/hybrid" /\ document_ids = <<>>
               THEN vs_api' = [route |-> route, failed |-> "none",
                               status |-> 400, success |-> FALSE,
                               total_results |-> 0]
               ELSE \E a \in SearchHandler(route, document_ids, limit,
                                           score_threshold, failed) :
                       vs_api' = [route |-> route, failed |-> failed,
                                  status |-> IF a.raised THEN 500 ELSE 200,
                                  success |-> ~a.raised,
                                  total_results |-> a.total]
            /\ vs_last' = NoCall
            /\ vs_search' = NoSearch
            /\ vs_hybrid' = NoHybrid
            /\ UNCHANGED <<vs_points, processed_documents, batch, othersVec>>

\* the documents load_documents_from_json can find in the JSON file
BatchDocuments == [DocumentId : 0..MaxDocId, content : Contents]

\* the early returns and the outer `except` of a batch method
BatchRefused(entry, errors) ==
    [NoBatch EXCEPT !.pc = "done", !.entry = entry, !.errors = errors]

\* a batch entering its loop over `documents`
BatchLoop(entry, documents) ==
    [NoBatch EXCEPT !.pc = "loop", !.entry = entry, !.todo = documents,
                    !.total_documents = Len(documents)]

\* `documents[:limit]` under `if limit:` (limit 0 stands for None)
ApplyLimit(documents, limit) ==
    IF limit # 0 THEN SubSeq(documents, 1, Min(limit, Len(documents)))
    ELSE documents

\* `[doc for doc in documents if doc.get("DocumentId") in document_ids]`
TargetDocuments(documents, document_ids) ==
    LET wanted(doc) == doc.DocumentId \in Range(document_ids)
    IN  SelectSeq(documents, wanted)

\* BAAIDocumentProcessor.process_all_documents(limit) up to its loop;
\* a failing connect() or create_collection() ends in the outer `except`
ProcessAllDocuments ==
    /\ batch.pc # "loop"
    /\ \E documents \in SeqsUpTo(BatchDocuments, MaxBatch),
          limit \in 0..MaxBatch, connect_fails \in BOOLEAN :
        batch' = IF documents = <<>> THEN BatchRefused("all", 0)
                 ELSE IF connect_fails THEN BatchRefused("all", 1)
                 ELSE BatchLoop("all", ApplyLimit(documents, limit))
    /\ vs_last' = NoCall
    /\ UNCHANGED <<vs_points, processed_documents, vs_search, vs_hybrid,
                   vs_api, othersVec>>

\* BAAIDocumentProcessor.process_documents_by_ids(document_ids) up to its loop
ProcessDocumentsByIds ==
    /\ batch.pc # "loop"
    /\ \E documents \in SeqsUpTo(BatchDocuments, MaxBatch),
          document_ids \in SeqsUpTo(DocumentIds, MaxSearchIds),
          connect_fails \in BOOLEAN :
        LET target_documents == TargetDocuments(documents, document_ids) IN
        batch' = IF documents = <<>> \/ target_documents = <<>>
                 THEN BatchRefused("by_ids", 0)
                 ELSE IF connect_fails THEN BatchRefused("by_ids", 1)
                 ELSE BatchLoop("by_ids", target_documents)
    /\ vs_last' = NoCall
    /\ UNCHANGED <<vs_points, processed_documents, vs_search, vs_hybrid,
                   vs_api, othersVec>>

\* the counter one turn of the loop increments:
\*   success = await process_single_document(document)
\*   processed_count if success, skipped_count if not, error_count in the
\*   `except` of the loop
CountedOnlyWhenProcessed(returned) ==
    IF returned = "True" THEN "processed" ELSE "none"
CountedAs(returned) ==
    CASE returned = "True" -> "processed"
      [] returned = "False" -> "skipped"
      [] OTHER -> "errors"

\* one turn of the loop of either batch method
BatchProcessNext ==
    /\ batch.pc = "loop"
    /\ batch.todo # <<>>
    /\ \E search_fails \in BOOLEAN, embed_fails \in BOOLEAN,
          upsert_fails \in BOOLEAN :
        LET document == Head(batch.todo)
            r == SingleDocumentResult("baai", document.DocumentId,
                     document.content, search_fails, embed_fails, upsert_fails)
            returned == Returned("baai", r.outcome)
            counter == CountedAs(returned)
            one(name) == IF counter = name THEN 1 ELSE 0
        IN  /\ vs_points' = [vs_points EXCEPT !["baai"] = r.points]
            /\ processed_documents' =
                  IF r.outcome = "processed"
                  THEN processed_documents \cup {document.DocumentId}
                  ELSE processed_documents
            /\ vs_last' = NoCall
            /\ batch' = [batch EXCEPT
                  !.todo = Tail(batch.todo),
                  !.processed = @ + one("processed"),
                  !.skipped = @ + one("skipped"),
                  !.errors = @ + one("errors"),
                  !.failed = @ + (IF r.outcome \in {"exception", "insert_failed"}
                                  THEN 1 ELSE 0)]
    /\ UNCHANGED <<vs_search, vs_hybrid, vs_api, othersVec>>

\* after the loop: disconnect() and the summary with success=True; a
\* raising client.close() ends in the outer `except`
BatchReturn ==
    /\ batch.pc = "loop"
    /\ batch.todo = <<>>
    /\ \E close_fails \in BOOLEAN :
        batch' = IF close_fails
                 THEN BatchRefused(batch.entry, 1)
                 ELSE [batch EXCEPT !.pc = "done", !.success = TRUE]
    /\ vs_last' = NoCall
    /\ UNCHANGED <<vs_points, processed_documents, vs_search, vs_hybrid,
                   vs_api, othersVec>>

\* numbers of paragraphs of a long document: up to one more than a scroll
\* page holds
ChunkCounts == {1, scroll_limit + 1}

\* [_]process_single_document for a document of that many paragraphs, with
\* no call failing
ProcessLongDocument(profile) ==
    \E d \in DocumentIds, n \in ChunkCounts :
        LET r == SingleDocumentResult(profile, d,
                     [nonempty |-> TRUE, paragraphs |-> n], FALSE, FALSE, FALSE)
        IN  /\ vs_points' = [vs_points EXCEPT ![profile] = r.points]
            /\ processed_documents' =
                  IF profile = "baai" /\ r.outcome = "processed"
                  THEN processed_documents \cup {d}
                  ELSE processed_documents
            /\ vs_chunks' = NoChunks
            /\ UNCHANGED <<vs_last, vs_search, vs_hybrid, vs_api, batch,
                           othersChunks>>

ProcessLongDocumentDefault == ProcessLongDocument("default")

ProcessLongDocumentBAAI == ProcessLongDocument("baai")

\* the sets of k elements of S
RECURSIVE KSubsets(_, _)
KSubsets(S, k) ==
    IF k = 0
    THEN {{}}
    ELSE UNION {{T \cup {x} : T \in KSubsets(S \ {x}, k - 1)} : x \in S}

\* what the client keeps back of the matching points: nothing, or all but
\* `limit` of them when there are more (which ones is up to the database)
BeyondFirstPage(matching, limit) ==
    IF Cardinality(matching) <= limit
    THEN {{}}
    ELSE KSubsets(matching, Cardinality(matching) - limit)

\* chunks.sort(key=chunk_index), as the chunk indexes in list order; the
\* indexes of the stored chunks are among 0..scroll_limit
SortByChunkIndex(indexes) ==
    SelectSeq([i \in 1..(scroll_limit + 1) |-> i - 1], LAMBDA i : i \in indexes)

\* the chunk index a stored point carries in its payload
PointChunkIndex(profile, point) ==
    LET key == IF profile = "default" THEN <<"chunk_index">> ELSE <<"ChunkIndex">>
    IN  (CHOOSE kv \in point.payload : kv[1] = key)[2]

\* the chunks built from the points of the page, sorted, set against the
\* points the collection holds for the document
ChunksReturned(profile, d, page) ==
    LET chunks == SortByChunkIndex({PointChunkIndex(profile, p) : p \in page})
        of_document == {q \in vs_points[profile] : q.id[1] = d}
    IN  [profile |-> profile, doc |-> d, outcome |-> "returned",
         indexed |-> Cardinality(of_document),
         returned |-> Len(chunks),
         complete |-> page = of_document,
         ascending |-> \A i \in 1..(Len(chunks) - 1) : chunks[i] < chunks[i + 1]]

\* the except branch: BAAI logs and returns [], the default profile re-raises
ChunksFailed(profile, d) ==
    [NoChunks EXCEPT !.profile = profile, !.doc = d, !.complete = FALSE,
        !.outcome = IF profile = "baai" THEN "empty_on_error" ELSE "raised"]

\* get_document_chunks(document_id): one filtered request on the key
\* DocumentId, BAAI client.scroll(limit=100) of which only the first page is
\* read, default client.search(limit=10000) with a zero query vector; the
\* chunks sorted by chunk_index.
GetDocumentChunks(profile) ==
    \E d \in DocumentIds :
        LET matching == {p \in vs_points[profile] :
                            PayloadMatches(p.payload, <<"DocumentId">>, d)}
            limit == IF profile = "baai" THEN scroll_limit ELSE chunk_search_limit
        IN  /\ \/ vs_chunks' = ChunksFailed(profile, d)
               \/ \E beyond \in BeyondFirstPage(matching, limit) :
                     vs_chunks' = ChunksReturned(profile, d, matching \ beyond)
            /\ UNCHANGED <<varsVec, othersChunks>>

GetDocumentChunksDefault == GetDocumentChunks("default")

GetDocumentChunksBAAI == GetDocumentChunks("baai")

\* long documents indexed in either profile and read back
NextChunks ==
    \/ ProcessLongDocumentDefault
    \/ ProcessLongDocumentBAAI
    \/ GetDocumentChunksDefault
    \/ GetDocumentChunksBAAI

NextVecDefault ==
    \/ ProcessSingleDocumentDefault
    \/ SearchByDocumentIdsDefault

NextVecBAAI ==
    \/ ProcessSingleDocumentBAAI
    \/ SearchByDocumentIdsBAAI

\* both pipelines and the search routes
NextSearchApi ==
    \/ ProcessSingleDocumentDefault
    \/ ProcessSingleDocumentBAAI
    \/ SearchRequest

\* the BAAI batch methods
NextBatch ==
    \/ ProcessAllDocuments
    \/ ProcessDocumentsByIds
    \/ BatchProcessNext
    \/ BatchReturn

\* the BAAI pipeline and its hybrid search
NextHybrid ==
    \/ ProcessSingleDocumentBAAI
    \/ HybridSearch

-----------------------------------------------------------------------------
(* Claims about the vector pipelines *)

\* C8 (SpecVecBAAI): once process_single_document has indexed a document,
\* every later call for the same DocumentId is skipped: it returns false
\* and leaves the points of the collection unchanged.
C8_ReingestionSkipped ==
    (vs_last.profile = "baai" /\ vs_last.had_points)
    => (vs_last.returned = "False" /\ ~vs_last.changed)

C11_SingleIdWitness ==
    /\ vs_search.profile = "baai"
    /\ Cardinality(Range(vs_search.document_ids)) = 1
    /\ vs_search.hits # {}

\* C12 (SpecVecDefault): the default search_by_document_ids, asked for ids
\* [a, b] with both documents indexed through the default pipeline, ranks
\* every indexed point of a or b: it returns min(limit, number of those
\* points) hits, all of them points of a or b.
C12_DefaultSearchUnionOfIds ==
    (/\ vs_search.profile = "default"
     /\ vs_search.outcome = "returned"
     /\ Cardinality(Range(vs_search.document_ids)) = 2
     /\ \A i \in DOMAIN vs_search.document_ids :
           \E id \in vs_search.indexed : id[1] = vs_search.document_ids[i])
    => /\ vs_search.hits \subseteq vs_search.indexed
       /\ Cardinality(vs_search.hits) =
             Min(vs_search.limit, Cardinality(vs_search.indexed))

\* C21 (SpecSearchApi): on every search route of both profiles a failing
\* vector-database client call is answered with HTTP 500 and never with a
\* success=true response.
C21_FailedClientCallAnswered500 ==
    vs_api.failed # "none" => (vs_api.status = 500 /\ ~vs_api.success)

\* C26 (SpecBatch): a document whose chunking, embedding or insertion
\* raises, or whose insert reports failure, is counted in the errors
\* counter of the batch and in no other, and the batch goes on.
C26_FailedDocumentCountedAsError ==
    (batch.pc = "loop" \/ batch.success) => batch.errors = batch.failed

\* C30 (SpecBatch): a summary with success=true of process_all_documents or
\* process_documents_by_ids has processed + skipped + errors =
\* total_documents; during the loop the documents still to do make up the
\* difference.
C30_CountersAddUpToTotal ==
    /\ (batch.pc = "done" /\ batch.success) =>
          batch.processed + batch.skipped + batch.errors = batch.total_documents
    /\ batch.pc = "loop" =>
          batch.processed + batch.skipped + batch.errors + Len(batch.todo)
             = batch.total_documents

\* a batch of two documents ended with one processed and one not
C30_Witness ==
    /\ batch.pc = "done"
    /\ batch.success
    /\ batch.total_documents = 2
    /\ batch.processed = 1
    /\ batch.skipped = 1

\* C27 (SpecChunks): get_document_chunks(d), when the client call succeeds,
\* returns every chunk indexed for document d, each once and none of
\* another document, in ascending chunk_index order, however many chunks
\* the document has.
C27_AllChunksOfDocumentInOrder ==
    vs_chunks.outcome = "returned" =>
        /\ vs_chunks.complete
        /\ vs_chunks.returned = vs_chunks.indexed
        /\ vs_chunks.ascending

\* C24 (SpecHybrid): the list returned by the BAAI hybrid_search has at
\* most `limit` entries, no two entries with the same (document_id,
\* chunk_index), scores in non-increasing order, and no similarity-phase
\* entry of a document that the id phase found.
C24_HybridResultIsBoundedUniqueSorted ==
    /\ Cardinality(vs_hybrid.returned) <= vs_hybrid.limit
    /\ Len(vs_hybrid.scores) = Cardinality(vs_hybrid.returned)
    /\ \A r, q \in vs_hybrid.returned : ResultKey(r) = ResultKey(q) => r = q
    /\ \A i, j \in DOMAIN vs_hybrid.scores :
          i < j => vs_hybrid.scores[i] >= vs_hybrid.scores[j]
    /\ \A r \in vs_hybrid.returned :
          r.phase = "similar" =>
             r.document_id \notin vs_hybrid.id_documents

\* both phases contributed, with different scores, and the similarity
\* phase had found a chunk of the document the id phase returned
C24_Witness ==
    /\ \E r \in vs_hybrid.returned : r.phase = "id"
    /\ \E r \in vs_hybrid.returned : r.phase = "similar"
    /\ vs_hybrid.excluded
    /\ Len(vs_hybrid.scores) >= 2
    /\ vs_hybrid.scores[1] > vs_hybrid.scores[Len(vs_hybrid.scores)]

-----------------------------------------------------------------------------
(* Paragraph splitting: EmbeddingService.split_into_paragraphs and the     *)
(* identical BAAIEmbeddingService.split_into_paragraphs                    *)

\* self.max_chunk_size and self.overlap_size
max_chunk_size == 512
overlap_size == 50

\* A text is a sequence of runs <<class, n>>: n characters of one class.
\*   "a"  a character that is neither white space nor one of . ! ?
\*   " "  white space
\*   "."  one of . ! ?
\* Two texts are the same string iff their merged forms (Canon) are equal.
CharClasses == {"a", " ", "."}
RunLengths == {1, 212, 300}
Texts == UNION {[1..n -> CharClasses \X RunLengths] : n \in 0..MaxRuns}

RECURSIVE TextLen(_)
TextLen(t) == IF t = <<>> THEN 0 ELSE t[1][2] + TextLen(Tail(t))

\* adjacent runs of one class merged
RECURSIVE Canon(_)
Canon(t) ==
    IF Len(t) <= 1 THEN t
    ELSE LET r == Canon(Tail(t)) IN
         IF t[1][1] = r[1][1]
         THEN << <<t[1][1], t[1][2] + r[1][2]>> >> \o Tail(r)
         ELSE <<t[1]>> \o r

\* str.strip()
RECURSIVE StripLeft(_)
StripLeft(t) ==
    IF t # <<>> /\ t[1][1] = " " THEN StripLeft(Tail(t)) ELSE t

RECURSIVE StripRight(_)
StripRight(t) ==
    IF t # <<>> /\ t[Len(t)][1] = " "
    THEN StripRight(SubSeq(t, 1, Len(t) - 1))
    ELSE t

Strip(t) == StripRight(StripLeft(t))

\* re.sub(r'\s+', ' ', text.strip())
CleanText(text) ==
    LET c == Canon(Strip(text)) IN
    [i \in DOMAIN c |-> IF c[i][1] = " " THEN <<" ", 1>> ELSE c[i]]

\* re.split(r'[.!?]+', text) of a merged text: the pieces between the runs
\* of punctuation, empty pieces included
RECURSIVE SplitSentences(_)
SplitSentences(t) ==
    IF t = <<>> THEN << <<>> >>
    ELSE LET rest == SplitSentences(Tail(t)) IN
         IF t[1][1] = "."
         THEN << <<>> >> \o rest
         ELSE << <<t[1]>> \o rest[1] >> \o Tail(rest)

\* the loop over the sentences and the final append, as the list of
\* paragraphs; current_chunk is the chunk being built
RECURSIVE Accumulate(_, _, _)
Accumulate(sentences, paragraphs, current_chunk) ==
    IF sentences = <<>>
    THEN IF current_chunk # <<>>
         THEN Append(paragraphs, Strip(current_chunk))
         ELSE paragraphs
    ELSE LET sentence == Strip(sentences[1]) IN
         IF sentence = <<>>
         THEN Accumulate(Tail(sentences), paragraphs, current_chunk)
         ELSE IF TextLen(current_chunk) + TextLen(sentence) > max_chunk_size
         THEN Accumulate(Tail(sentences),
                         IF current_chunk # <<>>
                         THEN Append(paragraphs, Strip(current_chunk))
                         ELSE paragraphs,
                         sentence)
         ELSE Accumulate(Tail(sentences), paragraphs,
                         IF current_chunk # <<>>
                         THEN Canon(current_chunk \o << <<" ", 1>> >> \o sentence)
                         ELSE sentence)

\* text[n:] and text[:n]
RECURSIVE DropChars(_, _)
DropChars(t, n) ==
    IF n <= 0 \/ t = <<>> THEN t
    ELSE IF t[1][2] <= n THEN DropChars(Tail(t), n - t[1][2])
    ELSE << <<t[1][1], t[1][2] - n>> >> \o Tail(t)

RECURSIVE TakeChars(_, _)
TakeChars(t, n) ==
    IF n <= 0 \/ t = <<>> THEN <<>>
    ELSE IF t[1][2] <= n THEN <<t[1]>> \o TakeChars(Tail(t), n - t[1][2])
    ELSE << <<t[1][1], n>> >>

\* [text[i:i+max_chunk_size]
\*    for i in range(0, len(text), max_chunk_size - overlap_size)]
FallbackWindows(text) ==
    LET step == max_chunk_size - overlap_size
        count == (TextLen(text) + step - 1) \div step
    IN  [k \in 1..count |->
            TakeChars(DropChars(text, (k - 1) * step), max_chunk_size)]

SplitIntoParagraphsOf(raw) ==
    LET text == CleanText(raw)
        paragraphs == Accumulate(SplitSentences(text), <<>>, <<>>)
    IN  IF paragraphs = <<>> THEN FallbackWindows(text) ELSE paragraphs

SplitIntoParagraphs ==
    \E text \in Texts :
        /\ split_text' = text
        /\ split_paragraphs' = SplitIntoParagraphsOf(text)
        /\ UNCHANGED othersSplit

InitSplit ==
    /\ split_text = <<>>
    /\ split_paragraphs = <<>>

NextSplit == SplitIntoParagraphs

-----------------------------------------------------------------------------
(* Claims about paragraph splitting *)

HasPunctuation(t) == \E i \in DOMAIN t : t[i][1] = "."

\* C13 (SpecSplit): a text of at most 512 characters that contains
\* sentence-terminal punctuation comes back as exactly one element, equal
\* to the text with its white space normalised and nothing else removed.
C13_ShortTextIsOneNormalizedElement ==
    (/\ split_text # <<>>
     /\ TextLen(split_text) <= max_chunk_size
     /\ HasPunctuation(split_text))
    => split_paragraphs = << CleanText(split_text) >>

\* C23 (SpecSplit): when the sentence accumulation yields paragraphs, every
\* returned element is at most max_chunk_size (512) characters long, also
\* for a single long sentence and for sentences joined with a space.
C23_AccumulatedChunkWithinMaxChunkSize ==
    Accumulate(SplitSentences(CleanText(split_text)), <<>>, <<>>) # <<>>
    => \A k \in DOMAIN split_paragraphs :
          TextLen(split_paragraphs[k]) <= max_chunk_size

\* C14 (SpecSplit): a non-empty text longer than 512 characters without
\* . ! ? comes back as the fixed-width windows text[k*462 : k*462+512],
\* each at most 512 characters long.
C14_LongUnpunctuatedTextIsWindowed ==
    (/\ TextLen(split_text) > max_chunk_size
     /\ ~HasPunctuation(split_text))
    => /\ split_paragraphs = FallbackWindows(CleanText(split_text))
       /\ \A k \in DOMAIN split_paragraphs :
             TextLen(split_paragraphs[k]) <= max_chunk_size

-----------------------------------------------------------------------------
(* Web application and relational access: main.py, endpoints/audit.py,     *)
(* audit_service.py, sqlserver_service.py, models/audit.py                 *)

\* ThreadPoolExecutor(max_workers=10)
max_workers == 10

\* StoredProcedureParameters.procedure_name
ProcedureName == "AuditHeader_Get_AvailableActivityDocumentsAzzuleAI"

\* StoredProcedureParameters.get_parameters: Auditheaderid, QuestionID
GetParameters(audit_header_id, question_id) == <<audit_header_id, question_id>>

\* `question_id or 0`
OrZero(question_id) == IF question_id = 0 THEN 0 ELSE question_id

\* SQLServerService.execute_stored_procedure as [raised, executed]:
\*   not connected               -> RuntimeError, nothing sent
\*   executor shut down          -> run_in_executor raises, nothing sent
\*   pyodbc fails (server_fails) -> the exception is re-raised
\*   otherwise                   -> one EXEC reaches the server
ExecuteStoredProcedure(procedure_name, parameters, server_fails) ==
    IF ~sql_is_connected
    THEN [raised |-> "not_initialized", executed |-> <<>>]
    ELSE IF ~sql_executor_open
    THEN [raised |-> "executor_shutdown", executed |-> <<>>]
    ELSE IF server_fails
    THEN [raised |-> "pyodbc_error", executed |-> <<>>]
    ELSE [raised |-> "no", executed |-> << <<procedure_name, parameters>> >>]

\* `if audit_header_id <= 0: raise ValueError(...)`
AnyAuditHeaderId(audit_header_id) == TRUE
ValidAuditHeaderId(audit_header_id) == audit_header_id > 0

\* AuditService.get_audit_documents as [raised, executed, connected]
\* (connected: the state of the singleton when execute_stored_procedure is
\* invoked; "never" when validation fails before)
AuditServiceGetAuditDocuments(audit_header_id, question_id, server_fails) ==
    LET r == ExecuteStoredProcedure(
                 ProcedureName,
                 GetParameters(audit_header_id, OrZero(question_id)),
                 server_fails)
    IN  IF ~ValidAuditHeaderId(audit_header_id)
        THEN [raised |-> "ValueError", executed |-> <<>>, connected |-> "never"]
        ELSE [raised |-> IF r.raised = "no" THEN "no" ELSE "RuntimeError",
              executed |-> r.executed,
              connected |-> IF sql_is_connected THEN "yes" ELSE "no"]

\* the HTTP status the endpoint answers with
StatusOf(raised) ==
    CASE raised = "no" -> 200
      [] raised = "ValueError" -> 400
      [] OTHER -> 500

\* DatabaseService.connect, by how far it gets:
\*   "client_error"  AsyncIOMotorClient(...) raises: nothing is assigned
\*   "ping_failed"   the client is assigned, the ping raises
\*   "connected"     client and database are assigned
ConnectOutcomes == {"client_error", "ping_failed", "connected"}

DatabaseConnect(outcome) ==
    /\ db_client' = (IF outcome = "client_error" THEN db_client ELSE TRUE)
    /\ db_database' = (IF outcome = "connected" THEN TRUE ELSE db_database)
    /\ db_ever_connected' = (db_ever_connected \/ outcome = "connected")

\* DatabaseService.disconnect
DatabaseDisconnect ==
    /\ db_client' = FALSE
    /\ db_database' = (IF db_client THEN FALSE ELSE db_database)
    /\ UNCHANGED db_ever_connected

\* startup_event: connects MongoDB only; a failure is printed and the
\* application continues
Startup ==
    /\ app_phase = "created"
    /\ app_phase' = "running"
    /\ \E outcome \in ConnectOutcomes : DatabaseConnect(outcome)
    /\ UNCHANGED <<doc_repository, http_log, health_last, aidoc_last,
                   sqlState, sp_log, svc_log, othersAudit>>

\* shutdown_event: disconnects MongoDB
Shutdown ==
    /\ app_phase = "running"
    /\ app_phase' = "stopped"
    /\ DatabaseDisconnect
    /\ UNCHANGED <<doc_repository, http_log, health_last, aidoc_last,
                   sqlState, sp_log, svc_log, othersAudit>>

\* The application answers requests once started; an in-process client
\* (TestClient(app) used without its context manager) also calls it
\* without the startup hook having run.
Serving == app_phase \in {"created", "running"}

\* DatabaseService.health_check
DatabaseHealthCheck(ping_ok) ==
    IF ~db_client THEN "disconnected"
    ELSE IF ping_ok THEN "connected"
    ELSE "error"

\* `"healthy" if mongodb_status["status"] == "connected" else "degraded"`
OverallStatusAlwaysHealthy(probe) == "healthy"
OverallStatus(probe) == IF probe = "connected" THEN "healthy" ELSE "degraded"

\* GET /health
HealthCheck ==
    /\ Serving
    /\ \E ping_ok \in BOOLEAN :
        LET probe == DatabaseHealthCheck(ping_ok) IN
        health_last' = [http |-> 200, status |-> OverallStatus(probe),
                        api |-> "healthy", mongodb |-> probe,
                        connect_succeeded |-> db_ever_connected]
    /\ UNCHANGED <<app_phase, dbState, doc_repository, http_log, aidoc_last,
                   sqlState, sp_log, svc_log, othersAudit>>

\* DatabaseService.get_repository raises RuntimeError while database is None
GetRepositoryNeverRaises == FALSE
GetRepositoryRaises == ~db_database

\* the three /ai-documents routes; "search" without any filter is answered
\* 400 before the service is called
AIDocumentsRoutes == {"search", "search_document_id", "list"}

\* GET /ai-documents/...: the service obtains its repository (cached in
\* AIDocumentService._repository once obtained) and queries MongoDB; every
\* exception is answered 500
AIDocumentsRequest ==
    /\ Serving
    /\ \E route \in AIDocumentsRoutes, has_filter \in BOOLEAN,
          query_fails \in BOOLEAN :
        LET needs == ~(route = "search" /\ ~has_filter)
            no_repository == ~doc_repository /\ GetRepositoryRaises
            status == IF ~needs THEN 400
                      ELSE IF no_repository \/ query_fails THEN 500
                      ELSE 200
        IN /\ aidoc_last' = [route |-> route, needs_repository |-> needs,
                             status |-> status,
                             connect_succeeded |-> db_ever_connected]
           /\ doc_repository' = (doc_repository \/ (needs /\ ~no_repository))
    /\ UNCHANGED <<app_phase, dbState, http_log, health_last, sqlState,
                   sp_log, svc_log, othersAudit>>

\* GET /audit/documents/{audit_header_id}.  Path(gt=0) makes the framework
\* answer 422 without entering the handler; the handler calls the service
\* with question_id=0.
GetAuditDocuments ==
    /\ app_phase = "running"
    /\ ~sql_probe_open
    /\ Len(http_log) < MaxRequests
    /\ \E audit_header_id \in 0..MaxAuditId, server_fails \in BOOLEAN :
        IF audit_header_id <= 0
        THEN /\ http_log' = Append(http_log,
                    [audit_header_id |-> audit_header_id, status |-> 422,
                     connected |-> "never", executed |-> <<>>])
             /\ UNCHANGED sp_log
        ELSE LET r == AuditServiceGetAuditDocuments(audit_header_id, 0,
                                                    server_fails)
             IN /\ http_log' = Append(http_log,
                       [audit_header_id |-> audit_header_id,
                        status |-> StatusOf(r.raised),
                        connected |-> r.connected,
                        executed |-> r.executed])
                /\ sp_log' = sp_log \o r.executed
    /\ UNCHANGED <<app_phase, dbState, doc_repository, health_last,
                   aidoc_last, sqlState, svc_log, othersAudit>>

\* AuditService.get_audit_documents called directly (a script or a test):
\* any integer id, question_id 0 or another id
ServiceGetAuditDocuments ==
    /\ ~sql_probe_open
    /\ Len(svc_log) < MaxRequests
    /\ \E audit_header_id \in (-1)..MaxAuditId, question_id \in 0..1,
          server_fails \in BOOLEAN :
        LET r == AuditServiceGetAuditDocuments(audit_header_id, question_id,
                                               server_fails)
        IN /\ svc_log' = Append(svc_log,
                  [audit_header_id |-> audit_header_id,
                   raised |-> r.raised,
                   invocations |-> IF r.connected = "never" THEN 0 ELSE 1,
                   executed |-> r.executed,
                   was_connected |-> sql_is_connected])
           /\ sp_log' = sp_log \o r.executed
    /\ UNCHANGED <<webState, sqlState, othersAudit>>

\* SQLServerService.connect up to the driver call of _test_connection:
\* pyodbc.connect runs in the coroutine itself, on the event-loop thread,
\* and holds a driver connection until _test_connection returns.  No module
\* of the application calls connect().
SqlConnectProbe ==
    /\ ~sql_probe_open
    /\ sql_probe_open' = TRUE
    /\ UNCHANGED <<sql_is_connected, sql_executor_open, sql_running,
                   sql_queued, webState, sp_log, svc_log, othersAudit>>

\* ... and from there: the probe connection is closed; _is_connected = True
\* if the probe succeeded, otherwise the exception is re-raised and the flag
\* is left alone
SqlConnectReturn ==
    /\ sql_probe_open
    /\ sql_probe_open' = FALSE
    /\ \E ok \in BOOLEAN :
          sql_is_connected' = (IF ok THEN TRUE ELSE sql_is_connected)
    /\ UNCHANGED <<sql_executor_open, sql_running, sql_queued, webState,
                   sp_log, svc_log, othersAudit>>

\* execute_query / execute_stored_procedure / execute_scalar /
\* execute_non_query on a connected service: loop.run_in_executor hands the
\* _sync function to the executor
SqlSubmit ==
    /\ ~sql_probe_open
    /\ sql_is_connected
    /\ sql_executor_open
    /\ sql_queued < MaxQueued
    /\ sql_queued' = sql_queued + 1
    /\ UNCHANGED <<sql_is_connected, sql_executor_open, sql_running,
                   sql_probe_open, webState, sp_log, svc_log, othersAudit>>

\* ThreadPoolExecutor(max_workers=10): a queued item is started while fewer
\* than max_workers threads are busy; the _sync function opens its own
\* pyodbc connection
SqlWorkerStart ==
    /\ sql_queued > 0
    /\ sql_running < max_workers
    /\ sql_queued' = sql_queued - 1
    /\ sql_running' = sql_running + 1
    /\ UNCHANGED <<sql_is_connected, sql_executor_open, sql_probe_open,
                   webState, sp_log, svc_log, othersAudit>>

\* the _sync function closes its connection and returns (or raises)
SqlWorkerFinish ==
    /\ sql_running > 0
    /\ sql_running' = sql_running - 1
    /\ UNCHANGED <<sql_is_connected, sql_executor_open, sql_queued,
                   sql_probe_open, webState, sp_log, svc_log, othersAudit>>

\* SQLServerService.disconnect: executor.shutdown(wait=True) returns once
\* the accepted work is done, and the executor accepts no work afterwards
SqlDisconnect ==
    /\ ~sql_probe_open
    /\ sql_is_connected
    /\ sql_running = 0
    /\ sql_queued = 0
    /\ sql_is_connected' = FALSE
    /\ sql_executor_open' = FALSE
    /\ UNCHANGED <<sql_running, sql_queued, sql_probe_open, webState, sp_log,
                   svc_log, othersAudit>>

\* SQLServerService.__init__ and the module-level singletons
InitAudit ==
    /\ app_phase = "created"
    /\ db_client = FALSE
    /\ db_database = FALSE
    /\ db_ever_connected = FALSE
    /\ doc_repository = FALSE
    /\ health_last = [http |-> 0, status |-> "none", api |-> "none",
                      mongodb |-> "none", connect_succeeded |-> FALSE]
    /\ aidoc_last = [route |-> "none", needs_repository |-> FALSE,
                     status |-> 0, connect_succeeded |-> FALSE]
    /\ sql_is_connected = FALSE
    /\ sql_executor_open = TRUE
    /\ sql_running = 0
    /\ sql_queued = 0
    /\ sql_probe_open = FALSE
    /\ sp_log = <<>>
    /\ http_log = <<>>
    /\ svc_log = <<>>

-----------------------------------------------------------------------------
(* Routing: api/v1/api.py, main.py and the routers of api/v1/endpoints *)

\* the six endpoint modules
EndpointGroups ==
    {"health", "ai_documents", "audit", "vector_search", "baai_search",
     "ai_process"}

\* APIRouter(prefix=...) of each module; a path is the sequence of its
\* segments
RouterPrefix(group) ==
    CASE group = "ai_documents" -> <<"ai-documents">>
      [] group = "audit" -> <<"audit">>
      [] group = "vector_search" -> <<"vector-search">>
      [] group = "baai_search" -> <<"baai-search">>
      [] OTHER -> <<>>

\* the @router.get / @router.post decorators of each module
RouterRoutes(group) ==
    CASE group = "health" ->
            {<<"GET", <<>> >>, <<"GET", <<"health">> >>,
             <<"GET", <<"health", "mongodb">> >>, <<"GET", <<"info">> >>}
      [] group = "ai_documents" ->
            {<<"GET", <<"search">> >>,
             <<"GET", <<"search", "document-id", "{document_id}">> >>,
             <<"GET", <<>> >>}
      [] group = "audit" ->
            {<<"GET", <<"documents", "{audit_header_id}">> >>,
             <<"GET", <<"headers">> >>}
      [] group = "vector_search" ->
            {<<"POST", <<"hybrid">> >>, <<"POST", <<"similarity">> >>,
             <<"GET", <<"stats">> >>}
      [] group = "baai_search" ->
            {<<"POST", <<"search">> >>, <<"GET", <<"search", "similar">> >>,
             <<"GET", <<"search", "by-ids">> >>, <<"POST", <<"process">> >>,
             <<"GET", <<"stats">> >>,
             <<"GET", <<"document", "{document_id}", "chunks">> >>}
      [] group = "ai_process" ->
            {<<"POST", <<"ai-process", "audit">> >>,
             <<"POST", <<"ai-process", "audit-legacy">> >>,
             <<"GET", <<"ai-process", "health">> >>}

\* the routers api.py passes to api_router.include_router, each with prefix ""
IncludedRouters == {"health", "ai_documents", "audit", "vector_search"}

\* app.include_router(api_router, prefix="/api/v1")
ApiPrefix == <<"api", "v1">>

FullPath(group, route) == ApiPrefix \o RouterPrefix(group) \o route[2]

\* the routes of the application: those of the included routers under the
\* prefix, and @app.get("/") of main.py
ApplicationRoutes ==
    UNION {{<<r[1], FullPath(g, r)>> : r \in RouterRoutes(g)} :
              g \in IncludedRouters}
    \cup {<<"GET", <<>> >>}

\* a request for a route a router declares, sent to the application under
\* /api/v1: it reaches the handler if the application has the route and is
\* answered 404 otherwise
RouteRequest ==
    /\ Serving
    /\ \E g \in EndpointGroups :
        \E r \in RouterRoutes(g) :
            route_last' =
                [group |-> g, method |-> r[1], path |-> FullPath(g, r),
                 status |-> IF <<r[1], FullPath(g, r)>> \in ApplicationRoutes
                            THEN "handler" ELSE "404"]
    /\ UNCHANGED <<varsAudit, othersRouting>>

InitRouting ==
    route_last = [group |-> "none", method |-> "none", path |-> <<>>,
                  status |-> "none"]

\* the application answering requests for the declared routes
NextRouting ==
    \/ Startup
    \/ RouteRequest
    \/ Shutdown

\* C22 (SpecRouting): every route of the six endpoint modules is reachable
\* under /api/v1: a request for it reaches its handler.
C22_EveryDeclaredRouteReachesHandler ==
    route_last.group # "none" => route_last.status = "handler"

\* the running application: its event handlers and the audit endpoint
NextAudit ==
    \/ Startup
    \/ GetAuditDocuments
    \/ Shutdown

\* the running application: health and AI-documents routes
NextApp ==
    \/ Startup
    \/ HealthCheck
    \/ AIDocumentsRequest
    \/ Shutdown

\* the audit service driven directly, with the relational singleton
\* connected and disconnected by the caller
NextAuditService ==
    \/ ServiceGetAuditDocuments
    \/ SqlConnectProbe
    \/ SqlConnectReturn
    \/ SqlDisconnect

\* the relational singleton under concurrent execute_* calls
NextSqlPool ==
    \/ SqlConnectProbe
    \/ SqlConnectReturn
    \/ SqlSubmit
    \/ SqlWorkerStart
    \/ SqlWorkerFinish
    \/ SqlDisconnect

-----------------------------------------------------------------------------
(* Claims about the relational audit endpoint *)

\* C10 (SpecAudit): every answered GET /audit/documents/{id} with id > 0
\* found the relational singleton connected when execute_stored_procedure
\* was invoked and led to exactly one execution of the stored procedure
\* with parameters (id, 0).
C10_RequestExecutesProcedureOnce ==
    \A i \in DOMAIN http_log :
        http_log[i].audit_header_id > 0 =>
            /\ http_log[i].connected = "yes"
            /\ http_log[i].executed =
                  << <<ProcedureName, <<http_log[i].audit_header_id, 0>> >> >>

\* C15 (SpecAuditService): get_audit_documents with audit_header_id <= 0
\* raises ValueError before any relational call: execute_stored_procedure
\* is not invoked and nothing is executed, connected or not.
C15_InvalidIdRaisesBeforeRelationalCall ==
    /\ \A i \in DOMAIN svc_log :
          svc_log[i].audit_header_id <= 0 =>
             /\ svc_log[i].raised = "ValueError"
             /\ svc_log[i].invocations = 0
             /\ svc_log[i].executed = <<>>
    /\ Len(sp_log) <= Cardinality({i \in DOMAIN svc_log :
                                     svc_log[i].audit_header_id > 0})

\* an invalid id was given to a connected service, and a valid one executed
C15_Witness ==
    /\ \E i \in DOMAIN svc_log :
          svc_log[i].audit_header_id <= 0 /\ svc_log[i].was_connected
    /\ \E i \in DOMAIN svc_log :
          svc_log[i].audit_header_id <= 0 /\ ~svc_log[i].was_connected
    /\ sp_log # <<>>

\* C16 (SpecAudit): a GET /audit/documents/{id} request with a non-positive
\* id is answered with HTTP 400.
C16_NonPositiveIdAnswered400 ==
    \A i \in DOMAIN http_log :
        http_log[i].audit_header_id <= 0 => http_log[i].status = 400

\* C17 (SpecSqlPool): never more than 10 driver connections are open on the
\* relational service, the probe of connect() included.
C17_AtMostTenDriverConnections ==
    sql_running + (IF sql_probe_open THEN 1 ELSE 0) <= max_workers

\* C25 (SpecSqlPool): every blocking driver call of the relational service,
\* the connectivity probe of connect() included, runs on a thread of the
\* worker pool: the event-loop thread is never inside a driver call.
C25_NoDriverCallOnEventLoopThread ==
    sql_probe_open = FALSE

\* C28 (SpecSqlPool): whenever the relational singleton is connected, its
\* worker pool accepts new work, also after connect, disconnect, connect.
C28_ConnectedServiceAcceptsWork ==
    sql_is_connected => sql_executor_open

C19_HealthyWithoutDatabase ==
    (health_last.http # 0 /\ ~health_last.connect_succeeded)
    => (health_last.http = 200 /\ health_last.status = "healthy")

\* C29 (SpecApp): in every reachable state of DatabaseService the client
\* and the database handle are set or unset together, so whenever
\* health_check would report "connected", get_repository does not raise.
C29_ClientAndDatabaseSetTogether ==
    /\ db_client <=> db_database
    /\ \A ping_ok \in BOOLEAN :
          DatabaseHealthCheck(ping_ok) = "connected" => ~GetRepositoryRaises

\* C20 (SpecApp): while no connect has succeeded, every /ai-documents
\* request that needs the repository is answered 500; the application is
\* up and serving nevertheless.
C20_NoDatabaseMeansServerError ==
    (/\ aidoc_last.status # 0
     /\ aidoc_last.needs_repository
     /\ ~aidoc_last.connect_succeeded)
    => aidoc_last.status = 500

\* startup completed after a failed connect and a request was answered 500
C20_Witness ==
    /\ app_phase = "running"
    /\ ~db_ever_connected
    /\ aidoc_last.needs_repository
    /\ aidoc_last.status = 500

-----------------------------------------------------------------------------
(* Specifications *)

Init == InitAI /\ InitDoc /\ InitVec /\ InitAudit /\ InitSplit /\ InitRouting

Next ==
    \/ AIStep
    \/ NextDoc
    \/ NextVecDefault
    \/ NextVecBAAI
    \/ NextHybrid
    \/ NextSearchApi
    \/ NextBatch
    \/ NextChunks
    \/ NextRouting
    \/ NextAudit
    \/ NextApp
    \/ NextAuditService
    \/ NextSqlPool
    \/ NextSplit

Spec == Init /\ [][Next]_vars

\* one group of services at work, the others unused
StartAI ==
    InitAI /\ InitDoc /\ InitVec /\ InitAudit /\ InitSplit /\ InitRouting
StartQuiet ==
    QuietAI /\ InitDoc /\ InitVec /\ InitAudit /\ InitSplit /\ InitRouting

SpecAI == StartAI /\ [][AIStep]_vars

SpecDoc == StartQuiet /\ [][NextDoc]_vars

SpecDocSeq == StartQuiet /\ [][NextDocSeq]_vars

SpecVecDefault == StartQuiet /\ [][NextVecDefault]_vars

SpecVecBAAI == StartQuiet /\ [][NextVecBAAI]_vars

SpecHybrid == StartQuiet /\ [][NextHybrid]_vars

SpecSearchApi == StartQuiet /\ [][NextSearchApi]_vars

SpecRouting == StartQuiet /\ [][NextRouting]_vars

SpecBatch == StartQuiet /\ [][NextBatch]_vars

SpecChunks == StartQuiet /\ [][NextChunks]_vars

SpecAudit == StartQuiet /\ [][NextAudit]_vars

SpecApp == StartQuiet /\ [][NextApp]_vars

SpecAuditService == StartQuiet /\ [][NextAuditService]_vars

SpecSqlPool == StartQuiet /\ [][NextSqlPool]_vars

SpecSplit == StartQuiet /\ [][NextSplit]_vars

=============================================================================
